---- MODULE Spec2Model ----
(***************************************************************************)
(* The object stores of openpathsampling.netcdfplus (objects.py):          *)
(* ObjectStore, NamedObjectStore, UniqueNamedObjectStore, VariableStore,   *)
(* DictStore and ImmutableDictStore over one backend dimension with a json *)
(* column and a name column.                                               *)
(*                                                                         *)
(* A save is reentrant: serialising an object inside _save calls save on   *)
(* the objects it contains, so the model keeps the stack of save calls     *)
(* that are in flight.  SaveCall is the code of save up to the call of     *)
(* _save (or up to its early return or raise), SaveEnd is the backend      *)
(* write of the innermost call and everything after it, SaveFail is a      *)
(* write that raises; an exception leaves every call of the stack.         *)
(***************************************************************************)
EXTENDS Integers, Sequences, FiniteSets

\* ---------------------------------------------------------------- bounds
NObj == 2        \* objects the application creates and saves
MaxLoaded == 1   \* instances reconstructed from the backend by load/cache_all
MaxLen == 3      \* slots of the backend dimension the model follows
MaxDepth == 2    \* depth of nested save calls
MaxYield == 4    \* elements taken from one iterator

\* ------------------------------------------------------------ value sets
NoSlot == -1                     \* index.get(obj) is None
NoObj == 0                       \* no object (None / cache miss)
NoName == "None"                 \* the idx argument left out (None)
Names == {"", "a", "b"}          \* "" is the name of an unnamed object
Kinds == {"object", "named", "unique"}
DictKinds == {"dict", "immutable"}   \* DictStore, ImmutableDictStore
AppObjs == 1..NObj
LoadedObjs == (NObj + 1)..(NObj + MaxLoaded)
\* an object that is not an instance of the content class of the store
ForeignObjs == {NObj + MaxLoaded + 1}
AllObjs == AppObjs \cup LoadedObjs \cup ForeignObjs
Slots == 0..(MaxLen - 1)
Fill == 0                        \* a slot of the json column never written
Partial == -1                    \* what a write that raised may leave behind
PreContent == 9                  \* the record of a file that already had one

VARIABLES
    kind,          \* which class the store is
    length,        \* len(self): the backend dimension
    json,          \* the json column: slot -> content
    namecol,       \* the name column: slot -> name
    index,         \* self.index: object -> slot
    cacheOn,       \* self.cache is a MaxCache (TRUE) or a NoCache (FALSE)
    cache,         \* self.cache: slot -> object
    cachedAll,     \* self._cached_all
    free_,         \* self._free: the slot reservation set
    name_idx,      \* self._name_idx: name -> set of slots
    names_loaded,  \* self._names_loaded
    free_name,     \* self._free_name: the name reservation set
    content,       \* object -> its content
    objName,       \* object -> obj._name
    objFixed,      \* object -> obj._name_fixed
    nLoaded,       \* instances reconstructed so far
    stack,         \* the save calls in flight, outermost first
    ret,           \* the outcome of the last call that finished
    writes,        \* object -> record writes done for it
    firstSlot,     \* object -> the slot its first returning save returned
    treeRets,      \* <<object, slot>> the saves of the last call tree returned to
                   \* objects that had not been saved before
    registered,    \* self._storage is not None: register() has been called
    allDone,       \* a cache_all() has returned since the last clear_cache()
    keyFirst,      \* key -> the content of the first record written under it
    keyLast,       \* key -> the content of the last record written under it
    loadedAt,      \* object -> the slot load returned it for, or NoSlot
    itKind,        \* the iterator: "none", or made from "full" or from a "slice"
    itIdx,         \* ObjectIterator.idx
    itEnd,         \* ObjectIterator.end
    itStep,        \* the step of the slice (1 when there is none)
    itDone,        \* next() has raised StopIteration
    yielded        \* the slots whose objects the iterator has returned

storeVars == <<kind, length, json, namecol, index, cacheOn, cache, cachedAll,
               free_, name_idx, names_loaded, free_name>>
objVars == <<content, objName, objFixed, nLoaded>>
histVars == <<writes, firstSlot>>
iterVars == <<itKind, itIdx, itEnd, itStep, itDone, yielded>>
flagVars == <<registered, allDone, keyFirst, keyLast, iterVars>>
extVars == <<flagVars, loadedAt>>
vars == <<storeVars, objVars, stack, ret, histVars, treeRets, extVars>>

Max(a, b) == IF a >= b THEN a ELSE b

NoRet == [op |-> "none", obj |-> NoObj, arg |-> NoName, slot |-> NoSlot,
          status |-> "none", hit |-> FALSE, wrote |-> FALSE, alloc |-> FALSE,
          again |-> FALSE, list |-> <<>>, val |-> 0]

\* --------------------------------------------------------------- helpers

RECURSIVE FreeFrom(_)
\* the loop of free(): skip the reserved slots
FreeFrom(i) == IF i \in free_ THEN FreeFrom(i + 1) ELSE i

\* an allocator that does not look at the reservation set
FreeAtLength == length

\* ObjectStore.free
Free == FreeFrom(length)

\* NamedObjectStore._update_name_in_cache on a given index
UpdateName(nidx, name, i) ==
    IF name # "" THEN [nidx EXCEPT ![name] = @ \cup {i}] ELSE nidx

RECURSIVE UpdateAll(_, _)
\* the loop of update_name_cache over the name column, slots i..length-1
UpdateAll(nidx, i) ==
    IF i >= length THEN nidx
    ELSE UpdateAll(UpdateName(nidx, namecol[i], i), i + 1)

\* the property name_idx: the index after the lazy first read
NameIdxRead == IF names_loaded THEN name_idx ELSE UpdateAll(name_idx, 0)

\* name in self.name_idx
InNameIdx(n) == n \in Names /\ NameIdxRead[n] # {}

\* UniqueNamedObjectStore.is_name_locked
IsNameLocked(n) ==
    IF n = NoName THEN FALSE ELSE InNameIdx(n) \/ n \in free_name

\* ObjectStore.reserve_idx
ReserveIdx(fr, i) == fr \cup {i}

\* release_idx that forgets the slot
ReleaseIdxLeak(fr, i) == fr

\* ObjectStore.release_idx
ReleaseIdx(fr, i) == fr \ {i}

\* UniqueNamedObjectStore.reserve_name
ReserveName(fn, n) == IF n # "" THEN fn \cup {n} ELSE fn

\* release_name that keeps the name
ReleaseNameLeak(fn, n) == fn

\* UniqueNamedObjectStore.release_name
ReleaseName(fn, n) == fn \ {n}

\* a column write at slot i grows the dimension to hold it
Grow(len, i) == Max(len, i + 1)

\* cache[i] = obj
CacheSet(c, i, o) == IF cacheOn THEN [c EXCEPT ![i] = o] ELSE c

RECURSIVE Sorted(_)
\* sorted(list(S))
Sorted(S) ==
    IF S = {} THEN <<>>
    ELSE LET m == CHOOSE x \in S : \A y \in S : x <= y
         IN <<m>> \o Sorted(S \ {m})

FrameSlots == {stack[k].n_idx : k \in 1..Len(stack)}
FrameNames == {stack[k].uname : k \in 1..Len(stack)}
FrameObjs == {stack[k].obj : k \in 1..Len(stack)}

\* ------------------------------------------------------------------ Init
\* A store of one of the classes ks on a new file or on a file that already
\* holds one record; nothing is cached, indexed or reserved yet.
InitOf(ks, reg) ==
    /\ kind \in ks
    /\ registered = reg
    /\ allDone = FALSE
    /\ \E pre \in 0..1, n \in Names :
          /\ length = pre
          /\ json = [i \in Slots |-> IF i < pre THEN PreContent ELSE Fill]
          /\ namecol = [i \in Slots |->
                           IF i < pre /\ kind # "object" THEN n ELSE ""]
          /\ (kind = "object" \/ pre = 0) => n = ""
          /\ keyFirst = [k \in Names |->
                            IF pre = 1 /\ kind # "object" /\ n = k
                               /\ k # ""
                            THEN PreContent ELSE Fill]
          /\ keyLast = keyFirst
    /\ loadedAt = [o \in AllObjs |-> NoSlot]
    /\ itKind = "none"
    /\ itIdx = 0
    /\ itEnd = 0
    /\ itStep = 1
    /\ itDone = FALSE
    /\ yielded = <<>>
    /\ index = [o \in AllObjs |-> NoSlot]
    /\ cacheOn = FALSE
    /\ cache = [i \in Slots |-> NoObj]
    /\ cachedAll = FALSE
    /\ free_ = {}
    /\ name_idx = [n \in Names |-> {}]
    /\ names_loaded = FALSE
    /\ free_name = {}
    /\ content = [o \in AllObjs |-> IF o \in AppObjs THEN o ELSE Fill]
    /\ objName = [o \in AllObjs |-> ""]
    /\ objFixed = [o \in AllObjs |-> FALSE]
    /\ nLoaded = 0
    /\ stack = <<>>
    /\ ret = NoRet
    /\ writes = [o \in AppObjs |-> 0]
    /\ firstSlot = [o \in AppObjs |-> NoSlot]
    /\ treeRets = {}

\* a registered ObjectStore, NamedObjectStore or UniqueNamedObjectStore
Init == InitOf(Kinds, TRUE)

\* the objects that exist: the application's and the reconstructed ones
Live == AppObjs \cup (NObj + 1)..(NObj + nLoaded)

\* ------------------------------------------------- UniqueNamedObjectStore
\* the checks that let an unsaved object with a fixed name be renamed
UniqueErrRenames(obj, idx) ==
    LET name == objName[obj]
        fixed == objFixed[obj]
    IN  IF idx # NoName
        THEN IF fixed THEN name # idx /\ index[obj] # NoSlot
             ELSE IsNameLocked(idx)
        ELSE IF fixed THEN index[obj] = NoSlot /\ IsNameLocked(name)
             ELSE IsNameLocked(name)

\* the checks of UniqueNamedObjectStore.save: TRUE when err is not empty
UniqueErr(obj, idx) ==
    LET name == objName[obj]
        fixed == objFixed[obj]
    IN  IF idx # NoName
        THEN IF fixed THEN name # idx ELSE IsNameLocked(idx)
        ELSE IF fixed THEN index[obj] = NoSlot /\ IsNameLocked(name)
             ELSE IsNameLocked(name)

\* the early return taken only when no name is passed
UniqueRetNoArg(obj, idx) ==
    /\ objFixed[obj]
    /\ index[obj] # NoSlot
    /\ idx = NoName

\* the two early returns of UniqueNamedObjectStore.save
UniqueRet(obj, idx) ==
    /\ objFixed[obj]
    /\ index[obj] # NoSlot
    /\ idx # NoName => objName[obj] = idx

\* whether the checks read the property name_idx (is_name_locked is called)
UniqueReads(obj, idx) ==
    IF objFixed[obj]
    THEN index[obj] = NoSlot /\ (idx # NoName => objName[obj] # idx)
    ELSE TRUE

\* the name UniqueNamedObjectStore.save reserves and releases
UniqueReserved(obj, idx) == objName[obj]

\* isinstance that takes every object for an instance of the content class
IsInstanceAny(obj) == TRUE

\* isinstance(obj, self.content_class)
IsInstance(obj) == obj \notin ForeignObjs

\* the objects for which a save call has returned a slot
Saved == {o \in AppObjs : firstSlot[o] # NoSlot}

\* what save records for the call that finished: the slot returned, whether
\* a record was written, whether a slot was allocated, and whether a save
\* of obj had returned before this call was made
SaveRet(obj, st, n, w, a, fresh) ==
    [NoRet EXCEPT !.op = "save", !.obj = obj, !.status = st, !.slot = n,
                  !.wrote = w, !.alloc = a,
                  !.again = obj \in AppObjs /\ ~fresh]

\* the history of returned slots after save(obj) returned n.  A save of an
\* object that is itself being saved (a self-referential graph) returns the
\* slot of the call in flight: the object counts as saved when that call
\* returns.
Returned(obj, n, fresh, final) ==
    /\ firstSlot' = IF obj \in AppObjs /\ firstSlot[obj] = NoSlot /\ final
                    THEN [firstSlot EXCEPT ![obj] = n] ELSE firstSlot
    /\ treeRets' = (IF stack = <<>> THEN {} ELSE treeRets)
                      \cup (IF fresh THEN {<<obj, n>>} ELSE {})

\* an exception raised in the call save(obj, idx) leaves every call in flight:
\* each finally clause releases its slot, and its name in the unique store
RaiseOut(obj, idx, st, fn) ==
    /\ free_' = free_ \ FrameSlots
    /\ free_name' = fn \ FrameNames
    /\ stack' = <<>>
    /\ ret' = [SaveRet(obj, st, NoSlot, FALSE, FALSE, obj \notin Saved)
                 EXCEPT !.arg = idx]
    /\ treeRets' = {}
    /\ UNCHANGED <<firstSlot, writes>>

\* ObjectStore.save / NamedObjectStore.save / UniqueNamedObjectStore.save,
\* from the call to the call of _save, to the early return or to the raise
\* a test that takes an object whose save is in flight for unsaved
BoundOnceWritten(obj) == index[obj] # NoSlot /\ obj \notin FrameObjs

\* obj in self.index
Bound(obj) == index[obj] # NoSlot

SaveCall(obj, idx) ==
    /\ Len(stack) < MaxDepth
    /\ \/ obj \in Live
       \/ obj \in ForeignObjs /\ kind = "object" /\ stack = <<>>
    /\ stack # <<>> => idx = NoName    \* serialisation calls save(obj)
    /\ LET is_str == idx # NoName
           uniq == kind = "unique"
           bound == Bound(obj)
           reads == uniq /\ UniqueReads(obj, idx)
           nidx1 == IF reads THEN NameIdxRead ELSE name_idx
           loaded1 == names_loaded \/ reads
           uname == IF uniq THEN UniqueReserved(obj, idx) ELSE NoName
           fn1 == IF uniq THEN ReserveName(free_name, uname) ELSE free_name
           fn2 == IF uniq THEN ReleaseName(fn1, uname) ELSE free_name
           name == IF is_str THEN idx ELSE objName[obj]
           fresh == obj \in AppObjs /\ obj \notin Saved
       IN  /\ names_loaded' = loaded1
           /\ UNCHANGED <<kind, json, cacheOn, cache, cachedAll, content,
                          nLoaded, extVars>>
           /\ IF uniq /\ UniqueErr(obj, idx)
              THEN \* raise RuntimeWarning: the name conflict
                   /\ RaiseOut(obj, idx, "NameConflict", free_name)
                   /\ name_idx' = nidx1
                   /\ UNCHANGED <<length, namecol, index, objName, objFixed>>
              ELSE IF uniq /\ UniqueRet(obj, idx)
              THEN \* already stored under its fixed name
                   /\ ret' = [SaveRet(obj, "ok", index[obj], FALSE, FALSE,
                                      fresh) EXCEPT !.arg = idx]
                   /\ Returned(obj, index[obj], fresh, obj \notin FrameObjs)
                   /\ name_idx' = nidx1
                   /\ UNCHANGED <<length, namecol, index, objName, objFixed,
                                  free_, free_name, stack, writes>>
              ELSE IF kind # "object" /\ is_str /\ objFixed[obj]
              THEN \* obj.name = idx raises: the name is fixed
                   /\ RaiseOut(obj, idx, "ValueError", fn2)
                   /\ name_idx' = nidx1
                   /\ UNCHANGED <<length, namecol, index, objName, objFixed>>
              ELSE IF bound
              THEN \* has been saved: ObjectStore.save returns index[obj]
                   LET n == index[obj]
                   IN  /\ ret' = [SaveRet(obj, "ok", n, FALSE, FALSE, fresh)
                                     EXCEPT !.arg = idx]
                       /\ Returned(obj, n, fresh, obj \notin FrameObjs)
                       /\ UNCHANGED <<index, free_, stack, writes>>
                       /\ IF kind = "object"
                          THEN UNCHANGED <<length, namecol, name_idx, objName,
                                           objFixed, free_name>>
                          ELSE /\ objName' = [objName EXCEPT ![obj] = name]
                               /\ objFixed' = [objFixed EXCEPT ![obj] = TRUE]
                               /\ namecol' = [namecol EXCEPT ![n] = name]
                               /\ length' = Grow(length, n)
                               /\ name_idx' = UpdateName(nidx1, name, n)
                               /\ free_name' = fn2
              ELSE IF ~IsInstance(obj)
              THEN \* raise ValueError: not of the content class of the store
                   /\ RaiseOut(obj, idx, "TypeMismatch", free_name)
                   /\ UNCHANGED <<length, namecol, index, name_idx, objName,
                                  objFixed>>
              ELSE IF kind = "object" /\ is_str
              THEN \* raise ValueError: only None is allowed as idx
                   /\ RaiseOut(obj, idx, "ValueError", free_name)
                   /\ UNCHANGED <<length, namecol, index, name_idx, objName,
                                  objFixed>>
              ELSE \* a new slot: bind, reserve, and call _save
                   LET n == Free
                   IN  /\ n < MaxLen
                       /\ index' = [index EXCEPT ![obj] = n]
                       /\ free_' = ReserveIdx(free_, n)
                       /\ free_name' = fn1
                       /\ objName' = IF kind = "object" THEN objName
                                     ELSE [objName EXCEPT ![obj] = name]
                       /\ name_idx' = nidx1
                       /\ stack' = Append(stack,
                              [obj |-> obj, arg |-> idx, n_idx |-> n,
                               name |-> name, uname |-> uname,
                               fresh |-> fresh])
                       /\ ret' = NoRet
                       /\ treeRets' = IF stack = <<>> THEN {} ELSE treeRets
                       /\ UNCHANGED <<length, namecol, objFixed, histVars>>

Top == stack[Len(stack)]

\* the backend write of the innermost save returns: release the slot, put the
\* object in the cache; the named stores fix the name and record it in the
\* name column and the name index; the unique store releases the name
SaveEnd ==
    /\ stack # <<>>
    /\ LET f == Top
           n == f.n_idx
       IN  /\ json' = [json EXCEPT ![n] = content[f.obj]]
           /\ length' = Grow(length, n)
           /\ free_' = ReleaseIdx(free_, n)
           /\ cache' = CacheSet(cache, n, f.obj)
           /\ IF kind = "object"
              THEN UNCHANGED <<objFixed, namecol, name_idx>>
              ELSE /\ objFixed' = [objFixed EXCEPT ![f.obj] = TRUE]
                   /\ namecol' = [namecol EXCEPT ![n] = f.name]
                   /\ name_idx' = UpdateName(name_idx, f.name, n)
           /\ free_name' = IF kind = "unique"
                           THEN ReleaseName(free_name, f.uname)
                           ELSE free_name
           /\ stack' = SubSeq(stack, 1, Len(stack) - 1)
           /\ ret' = SaveRet(f.obj, "ok", n, TRUE, TRUE, f.fresh)
           /\ Returned(f.obj, n, f.fresh, TRUE)
           /\ writes' = IF f.obj \in AppObjs /\ writes[f.obj] < 2
                        THEN [writes EXCEPT ![f.obj] = @ + 1] ELSE writes
    /\ UNCHANGED <<kind, index, cacheOn, cachedAll, names_loaded, content,
                   objName, nLoaded, extVars>>

\* a save that writes the name at its slot although the write raised
NameColWrittenAnyway(n, name) == [namecol EXCEPT ![n] = name]

\* the name column when the write of a save raised: the exception leaves
\* NamedObjectStore.save before it writes the name at slot n
NameColAfterFailure(n, name) == namecol

\* the backend write of the innermost save raises, with or without a partial
\* record left at its slot; the exception leaves every save in flight
SaveFail(partial) ==
    /\ stack # <<>>
    /\ LET f == Top
           n == f.n_idx
       IN  /\ json' = IF partial THEN [json EXCEPT ![n] = Partial] ELSE json
           /\ length' = IF partial THEN Grow(length, n) ELSE length
           /\ free_' = free_ \ FrameSlots
           /\ free_name' = free_name \ FrameNames
           /\ stack' = <<>>
           /\ ret' = SaveRet(f.obj, "WriteFailed", NoSlot, FALSE, TRUE, f.fresh)
           /\ namecol' = NameColAfterFailure(n, f.name)
           /\ treeRets' = {}
    /\ UNCHANGED <<kind, index, cacheOn, cache, cachedAll, name_idx,
                   names_loaded, objVars, writes, firstSlot, extVars>>

\* LoaderProxy(store, i)._idx: the slot the proxy wraps
ProxyIdx(i) == i

\* a save that gives a proxy a slot of its own
SaveProxyAllocates(i) ==
    /\ kind = "object"
    /\ Free < MaxLen
    /\ free_' = ReserveIdx(free_, Free)
    /\ ret' = [NoRet EXCEPT !.op = "save_proxy", !.val = i, !.slot = Free,
                            !.status = "ok", !.alloc = TRUE]
    /\ UNCHANGED <<kind, length, json, namecol, index, cacheOn, cache,
                   cachedAll, name_idx, names_loaded, free_name, objVars,
                   stack, histVars, treeRets, extVars>>

\* ObjectStore.save(p) for p = store.proxy(i), from the application or from a
\* serializer while a save is in flight: hasattr(obj, '_idx')
SaveProxy(i) ==
    /\ kind = "object"
    /\ ret' = [NoRet EXCEPT !.op = "save_proxy", !.val = i,
                            !.slot = ProxyIdx(i), !.status = "ok"]
    /\ UNCHANGED <<storeVars, objVars, stack, histVars, treeRets, extVars>>

\* store.free() called by the application or by a serializer while a save is
\* in flight
FreeCall ==
    /\ ret' = [NoRet EXCEPT !.op = "free", !.slot = Free, !.status = "ok"]
    /\ UNCHANGED <<storeVars, objVars, stack, histVars, treeRets, extVars>>

\* ------------------------------------------------------------------ load
\* what the caller of load sees: store[item] turns a KeyError into None
Caught(op, st) == IF op = "getitem" /\ st = "KeyError" THEN "none" ELSE st

LoadRet(op, arg, i, st, o, h) ==
    [NoRet EXCEPT !.op = op, !.arg = arg, !.slot = i,
                  !.status = Caught(op, st), !.obj = o, !.hit = h]

\* a store that takes the slot one past the last for a slot it holds
OutOfRangeStrict(i) == i > length

\* n_idx >= len(self): the slot is past the end of the store
OutOfRange(i) == i >= length

\* a load that leaves the name of the object it returns open to change
NotFixedOnLoad(o) == objFixed

\* obj.fix_name() on the object NamedObjectStore.load returns
FixedOnLoad(o) == [objFixed EXCEPT ![o] = TRUE]

\* ObjectStore.load(i), and what NamedObjectStore.load does with the object
\* it returns; nidx is self._name_idx when the call reaches this code
LoadCore(op, arg, i, nidx) ==
    IF i < 0
    THEN /\ ret' = LoadRet(op, arg, i, "none", NoObj, FALSE)
         /\ name_idx' = nidx
         /\ UNCHANGED <<index, cache, content, objName, objFixed, nLoaded>>
    ELSE IF cacheOn /\ i \in Slots /\ cache[i] # NoObj
    THEN LET o == cache[i]
         IN  /\ ret' = LoadRet(op, arg, i, "ok", o, TRUE)
             /\ UNCHANGED <<index, cache, content, nLoaded>>
             /\ IF kind = "object"
                THEN /\ name_idx' = nidx
                     /\ UNCHANGED <<objName, objFixed>>
                ELSE /\ objName' = [objName EXCEPT ![o] = namecol[i]]
                     /\ objFixed' = FixedOnLoad(o)
                     /\ name_idx' = UpdateName(nidx, namecol[i], i)
    ELSE IF OutOfRange(i)
    THEN /\ ret' = LoadRet(op, arg, i, "none", NoObj, FALSE)
         /\ name_idx' = nidx
         /\ UNCHANGED <<index, cache, content, objName, objFixed, nLoaded>>
    ELSE IF json[i] \in {Fill, Partial}
    THEN \* no object can be built: self.index[None] raises
         /\ ret' = LoadRet(op, arg, i, "TypeError", NoObj, FALSE)
         /\ name_idx' = nidx
         /\ UNCHANGED <<index, cache, content, objName, objFixed, nLoaded>>
    ELSE LET o == NObj + nLoaded + 1
         IN  /\ nLoaded < MaxLoaded
             /\ nLoaded' = nLoaded + 1
             /\ content' = [content EXCEPT ![o] = json[i]]
             /\ index' = [index EXCEPT ![o] = i]
             /\ cache' = CacheSet(cache, i, o)
             /\ ret' = LoadRet(op, arg, i, "ok", o, FALSE)
             /\ IF kind = "object"
                THEN /\ name_idx' = nidx
                     /\ UNCHANGED <<objName, objFixed>>
                ELSE /\ objName' = [objName EXCEPT ![o] = namecol[i]]
                     /\ objFixed' = FixedOnLoad(o)
                     /\ name_idx' = UpdateName(nidx, namecol[i], i)

\* the objects load has returned, after a call that ended as r
LoadedAfter(r) ==
    IF r.op \in {"load", "loadname"} /\ r.status = "ok"
    THEN [loadedAt EXCEPT ![r.obj] = r.slot] ELSE loadedAt

\* load(i) with an integer slot
Load(i) ==
    /\ stack = <<>>
    /\ LoadCore("load", NoName, i, name_idx)
    /\ loadedAt' = LoadedAfter(ret')
    /\ UNCHANGED <<kind, length, json, namecol, cacheOn, cachedAll, free_,
                   names_loaded, free_name, stack, histVars, flagVars>>
    /\ treeRets' = {}

\* a load that answers an unknown name with None
UnknownNameIsNone == "none"

\* raise ValueError('str "..." not found in storage')
UnknownName == "NotFound"

\* NamedObjectStore.load(name) with a string, called as op
LoadByNameAs(op, n) ==
    /\ stack = <<>>
    /\ kind \in {"named", "unique"}
    /\ names_loaded' = TRUE
    /\ LET nidx == NameIdxRead
       IN  IF nidx[n] = {}
           THEN \* raise ValueError: not found in storage
                /\ ret' = LoadRet(op, n, NoSlot, UnknownName, NoObj, FALSE)
                /\ name_idx' = nidx
                /\ UNCHANGED <<index, cache, content, objName, objFixed,
                               nLoaded>>
           ELSE IF Cardinality(nidx[n]) > 1
           THEN \* the debug message reads self.cache[name]: KeyError
                /\ ret' = LoadRet(op, n, NoSlot, "KeyError", NoObj, FALSE)
                /\ name_idx' = nidx
                /\ UNCHANGED <<index, cache, content, objName, objFixed,
                               nLoaded>>
           ELSE LET srt == Sorted(nidx[n])
                IN  LoadCore(op, n, srt[Len(srt)], nidx)
    /\ loadedAt' = LoadedAfter(ret')
    /\ UNCHANGED <<kind, length, json, namecol, cacheOn, cachedAll, free_,
                   free_name, stack, histVars, flagVars>>
    /\ treeRets' = {}

LoadByName(n) == LoadByNameAs("loadname", n)

\* NamedObjectStore.find_indices(name)
FindIndices(n) ==
    /\ stack = <<>>
    /\ kind # "object"
    /\ names_loaded' = TRUE
    /\ name_idx' = NameIdxRead
    /\ ret' = IF NameIdxRead[n] = {}
              THEN [NoRet EXCEPT !.op = "find", !.arg = n, !.status = "KeyError"]
              ELSE [NoRet EXCEPT !.op = "find", !.arg = n, !.status = "ok",
                                 !.list = Sorted(NameIdxRead[n])]
    /\ UNCHANGED <<kind, length, json, namecol, index, cacheOn, cache,
                   cachedAll, free_, free_name, objVars, stack, histVars,
                   extVars>>
    /\ treeRets' = {}

\* ------------------------------------------- DictStore, ImmutableDictStore
\* what DictStore.save records: the slot it chose, whether it wrote
DictRet(obj, key, st, n, w, a) ==
    [NoRet EXCEPT !.op = "dictsave", !.obj = obj, !.arg = key, !.status = st,
                  !.slot = n, !.wrote = w, !.alloc = a]

\* ImmutableDictStore.save: the key is in the name index already
KeyTaken(key) == kind = "immutable" /\ InNameIdx(key)

\* DictStore.save(obj, key) and ImmutableDictStore.save(obj, key); the write
\* returns (outcome "ok"), or raises before ("fail") or after ("partial") the
\* json column was written
DictSave(obj, key, outcome) ==
    /\ stack = <<>>
    /\ kind \in DictKinds
    /\ obj \in AppObjs
    /\ LET reads == kind = "immutable"
           nidx == IF reads THEN NameIdxRead ELSE name_idx
           n == Free
       IN  /\ names_loaded' = (names_loaded \/ reads)
           /\ IF KeyTaken(key)
              THEN \* raise RuntimeWarning: cannot re-save an existing key
                   /\ ret' = DictRet(obj, key, "KeyConflict", NoSlot, FALSE,
                                     FALSE)
                   /\ name_idx' = nidx
                   /\ UNCHANGED <<length, json, namecol, free_, keyFirst,
                                  keyLast>>
              ELSE IF key = NoName
              THEN \* raise ValueError: a DictStore needs a string key
                   /\ ret' = DictRet(obj, key, "ValueError", NoSlot, FALSE,
                                     FALSE)
                   /\ name_idx' = nidx
                   /\ UNCHANGED <<length, json, namecol, free_, keyFirst,
                                  keyLast>>
              ELSE /\ n < MaxLen
                   /\ free_' = ReserveIdx(free_, n)
                   /\ IF outcome = "ok"
                      THEN /\ json' = [json EXCEPT ![n] = content[obj]]
                           /\ namecol' = [namecol EXCEPT ![n] = key]
                           /\ length' = Grow(length, n)
                           /\ name_idx' = UpdateName(nidx, key, n)
                           /\ keyFirst' = IF keyFirst[key] = Fill
                                          THEN [keyFirst EXCEPT
                                                   ![key] = content[obj]]
                                          ELSE keyFirst
                           /\ keyLast' = [keyLast EXCEPT ![key] = content[obj]]
                           /\ ret' = DictRet(obj, key, "ok", n, TRUE, TRUE)
                      ELSE /\ json' = IF outcome = "partial"
                                      THEN [json EXCEPT ![n] = Partial]
                                      ELSE json
                           /\ length' = IF outcome = "partial"
                                        THEN Grow(length, n) ELSE length
                           /\ name_idx' = nidx
                           /\ ret' = DictRet(obj, key, "WriteFailed", n, FALSE,
                                             TRUE)
                           /\ UNCHANGED <<namecol, keyFirst, keyLast>>
    /\ UNCHANGED <<kind, index, cacheOn, cache, cachedAll, free_name, objVars,
                   stack, histVars, treeRets, registered, allDone,
                   iterVars,
                   loadedAt>>

\* DictStore.load(key) with a string, called as op
DictLoadAs(op, key) ==
    /\ stack = <<>>
    /\ kind \in DictKinds
    /\ names_loaded' = TRUE
    /\ name_idx' = NameIdxRead
    /\ LET nidx == NameIdxRead
           srt == Sorted(nidx[key])
           n == srt[Len(srt)]
       IN  ret' = IF nidx[key] = {}
                  THEN [LoadRet(op, key, NoSlot, "KeyError", NoObj, FALSE)
                           EXCEPT !.val = Fill]
                  ELSE IF n >= length
                  THEN [LoadRet(op, key, n, "RuntimeError", NoObj, FALSE)
                           EXCEPT !.val = Fill]
                  ELSE [LoadRet(op, key, n, "ok", NoObj, FALSE)
                           EXCEPT !.val = json[n]]
    /\ UNCHANGED <<kind, length, json, namecol, index, cacheOn, cache,
                   cachedAll, free_, free_name, objVars, stack, histVars,
                   treeRets, extVars>>

DictLoad(key) == DictLoadAs("dictload", key)

\* DictStore.load(i) with an integer, called as op
DictLoadAtAs(op, i) ==
    /\ stack = <<>>
    /\ kind \in DictKinds
    /\ ret' = IF i >= length \/ i < 0
              THEN [LoadRet(op, NoName, i, "RuntimeError", NoObj, FALSE)
                       EXCEPT !.val = Fill]
              ELSE [LoadRet(op, NoName, i, "ok", NoObj, FALSE)
                       EXCEPT !.val = json[i]]
    /\ UNCHANGED <<storeVars, objVars, stack, histVars, treeRets, extVars>>

DictLoadAt(i) == DictLoadAtAs("dictload", i)

\* -------------------------------------------------------------- iterator
\* ObjectIterator.__init__ without a slice: self.idx = 0
IterFirst == 0

\* store.iterator() and iter(store): a new ObjectIterator over the whole store
IterStart ==
    /\ stack = <<>>
    /\ itKind' = "full"
    /\ itIdx' = IterFirst
    /\ itEnd' = length
    /\ itStep' = 1
    /\ itDone' = FALSE
    /\ yielded' = <<>>
    /\ ret' = [NoRet EXCEPT !.op = "iter"]
    /\ UNCHANGED <<storeVars, objVars, stack, histVars, registered, allDone,
                   keyFirst, keyLast, loadedAt>>
    /\ treeRets' = {}

\* store.iterator(slice(start, stop, step)); a step of None counts as 1 in next
IterStartRange(start, stop, step) ==
    /\ stack = <<>>
    /\ itKind' = "range"
    /\ itIdx' = start
    /\ itEnd' = stop
    /\ itStep' = step
    /\ itDone' = FALSE
    /\ yielded' = <<>>
    /\ ret' = [NoRet EXCEPT !.op = "iter"]
    /\ UNCHANGED <<storeVars, objVars, stack, histVars, registered, allDone,
                   keyFirst, keyLast, loadedAt>>
    /\ treeRets' = {}

\* an iterator that advances by twice its step
IterAdvanceTwice(idx, step) == idx + step + step

\* self.idx += self.iter_range.step, or self.idx += 1 without a slice
IterAdvance(idx, step) == idx + step

\* ObjectIterator.next: load the slot and advance, or raise StopIteration;
\* a load that raises leaves the iterator where it was
IterNext ==
    /\ stack = <<>>
    /\ itKind # "none"
    /\ IF itIdx < itEnd
       THEN /\ Len(yielded) < MaxYield
            /\ LoadCore("next", NoName, itIdx, name_idx)
            /\ IF ret'.status = "TypeError"
               THEN UNCHANGED <<itIdx, yielded>>
               ELSE /\ itIdx' = IterAdvance(itIdx, itStep)
                    /\ yielded' = Append(yielded, itIdx)
            /\ UNCHANGED itDone
       ELSE /\ itDone' = TRUE
            /\ ret' = [NoRet EXCEPT !.op = "next", !.status = "StopIteration"]
            /\ UNCHANGED <<index, cache, name_idx, objVars, itIdx, yielded>>
    /\ UNCHANGED <<kind, length, json, namecol, cacheOn, cachedAll, free_,
                   names_loaded, free_name, stack, histVars, registered,
                   allDone, keyFirst, keyLast, itKind, itEnd, itStep,
                   loadedAt>>
    /\ treeRets' = {}

\* ----------------------------------------------------------- __getitem__
\* store[i] with an integer: self.load(i) with KeyError caught
GetItemAt(i) ==
    \/ /\ kind \in Kinds
       /\ stack = <<>>
       /\ LoadCore("getitem", NoName, i, name_idx)
       /\ UNCHANGED <<kind, length, json, namecol, cacheOn, cachedAll, free_,
                      names_loaded, free_name, stack, histVars, extVars>>
       /\ treeRets' = {}
    \/ DictLoadAtAs("getitem", i)

\* store[name] with a string: self.load(name) with KeyError caught
GetItemByName(n) ==
    \/ /\ kind = "object"
       /\ stack = <<>>
       \* ObjectStore.load raises ValueError for an index that is no int
       /\ ret' = LoadRet("getitem", n, NoSlot, "ValueError", NoObj, FALSE)
       /\ UNCHANGED <<storeVars, objVars, stack, histVars, extVars>>
       /\ treeRets' = {}
    \/ LoadByNameAs("getitem", n)
    \/ DictLoadAs("getitem", n)

\* ----------------------------------------------------------------- cache
\* clear_cache that empties the cache and keeps the fully-cached flag
ClearCacheKeepsFlag ==
    /\ stack = <<>>
    /\ cache' = [i \in Slots |-> NoObj]
    /\ allDone' = FALSE
    /\ ret' = [NoRet EXCEPT !.op = "clear_cache"]
    /\ UNCHANGED <<kind, length, json, namecol, index, cacheOn, cachedAll,
                   free_, name_idx, names_loaded, free_name, objVars, stack,
                   histVars, registered, keyFirst,
                   keyLast, iterVars,
                   loadedAt>>
    /\ treeRets' = {}

\* ObjectStore.clear_cache
ClearCache ==
    /\ stack = <<>>
    /\ cache' = [i \in Slots |-> NoObj]
    /\ cachedAll' = FALSE
    /\ allDone' = FALSE
    /\ ret' = [NoRet EXCEPT !.op = "clear_cache"]
    /\ UNCHANGED <<kind, length, json, namecol, index, cacheOn, free_,
                   name_idx, names_loaded, free_name, objVars, stack, histVars,
                   registered, keyFirst,
                   keyLast, iterVars,
                   loadedAt>>
    /\ treeRets' = {}

\* caching.transfer(self.cache): a MaxCache takes over the entries of the
\* cache it replaces, a NoCache holds nothing
Transfer(on) == IF on THEN cache ELSE [i \in Slots |-> NoObj]

\* ObjectStore.set_caching(True) / set_caching(False)
SetCaching(on) ==
    /\ stack = <<>>
    /\ cacheOn' = on
    /\ cache' = Transfer(on)
    /\ ret' = NoRet
    /\ UNCHANGED <<kind, length, json, namecol, index, cachedAll, free_,
                   name_idx, names_loaded, free_name, objVars, stack, histVars,
                   extVars>>
    /\ treeRets' = {}

RECURSIVE CacheAllFrom(_, _)
\* the loop of cache_all over the slots i..length-1: add_single_to_cache on
\* each, on the state st reached so far; it stops where no object is built
CacheAllFrom(st, i) ==
    IF i >= length \/ ~st.ok THEN st
    ELSE IF cacheOn /\ st.cache[i] # NoObj THEN CacheAllFrom(st, i + 1)
    ELSE IF json[i] \in {Fill, Partial} THEN [st EXCEPT !.ok = FALSE]
    ELSE LET o == NObj + st.nLoaded + 1
             nm == IF kind = "object" THEN "" ELSE namecol[i]
             nidx == UpdateName(st.name_idx, nm, i)
         IN  IF ~cacheOn
             THEN \* the object built is dropped at once
                  CacheAllFrom([st EXCEPT !.name_idx = nidx], i + 1)
             ELSE IF o \notin LoadedObjs THEN [st EXCEPT !.full = TRUE]
             ELSE CacheAllFrom(
                     [st EXCEPT !.nLoaded = @ + 1,
                                !.content = [@ EXCEPT ![o] = json[i]],
                                !.index = [@ EXCEPT ![o] = i],
                                !.cache = [@ EXCEPT ![i] = o],
                                !.objName = [@ EXCEPT ![o] = nm],
                                !.name_idx = nidx], i + 1)

\* ObjectStore.cache_all with (Named)ObjectStore.add_single_to_cache
CacheAll ==
    /\ stack = <<>>
    /\ IF cachedAll
       THEN /\ ret' = [NoRet EXCEPT !.op = "cache_all", !.status = "ok",
                                     !.again = allDone]
            /\ allDone' = TRUE
            /\ UNCHANGED <<cache, index, content, objName, name_idx, nLoaded,
                           cachedAll>>
       ELSE LET st == CacheAllFrom(
                         [ok |-> TRUE, full |-> FALSE, cache |-> cache,
                          index |-> index, content |-> content,
                          objName |-> objName, name_idx |-> name_idx,
                          nLoaded |-> nLoaded], 0)
            IN  /\ ~st.full
                /\ cache' = st.cache
                /\ index' = st.index
                /\ content' = st.content
                /\ objName' = st.objName
                /\ name_idx' = st.name_idx
                /\ nLoaded' = st.nLoaded
                /\ cachedAll' = st.ok
                /\ allDone' = (allDone \/ st.ok)
                /\ ret' = [NoRet EXCEPT !.op = "cache_all", !.wrote = TRUE,
                              !.again = allDone,
                              !.status = IF st.ok THEN "ok" ELSE "AttributeError"]
    /\ UNCHANGED <<kind, length, json, namecol, cacheOn, free_, names_loaded,
                   free_name, objFixed, stack, histVars, registered,
                   keyFirst, keyLast, iterVars,
                   loadedAt>>
    /\ treeRets' = {}

\* --------------------------------------------------------- VariableStore
\* cache_all() without a list of slots
NoPart == {-1}

RECURSIVE VarAddFrom(_, _)
\* the loop of VariableStore.cache_all over the slots of part, ascending:
\* add_to_cache on each, on the state st reached so far
VarAddFrom(st, part) ==
    IF part = {} THEN st
    ELSE LET i == CHOOSE x \in part : \A y \in part : x <= y
             o == NObj + st.nLoaded + 1
         IN  IF cacheOn /\ st.cache[i] # NoObj
             THEN VarAddFrom(st, part \ {i})
             ELSE IF ~cacheOn
             THEN \* the object built is dropped at once
                  VarAddFrom(st, part \ {i})
             ELSE IF o \notin LoadedObjs THEN [st EXCEPT !.full = TRUE]
             ELSE VarAddFrom(
                     [st EXCEPT !.nLoaded = @ + 1,
                                !.content = [@ EXCEPT ![o] = json[i]],
                                !.index = [@ EXCEPT ![o] = i],
                                !.cache = [@ EXCEPT ![i] = o]], part \ {i})

\* VariableStore.cache_all(part); part = NoPart is the call without a list
VarCacheAll(part) ==
    /\ stack = <<>>
    /\ kind = "object"
    /\ LET slots == IF part = NoPart THEN {i \in Slots : i < length} ELSE part
           arg == IF part = NoPart THEN NoName ELSE "part"
           st == VarAddFrom([full |-> FALSE, cache |-> cache, index |-> index,
                             content |-> content, nLoaded |-> nLoaded], slots)
       IN  IF slots = {}
           THEN \* nothing to load: return
                /\ ret' = [NoRet EXCEPT !.op = "cache_all", !.arg = arg,
                                        !.status = "ok", !.again = allDone]
                /\ UNCHANGED <<cache, index, content, nLoaded, cachedAll,
                               allDone>>
           ELSE IF cachedAll
           THEN /\ ret' = [NoRet EXCEPT !.op = "cache_all", !.arg = arg,
                                        !.status = "ok", !.again = allDone]
                /\ allDone' = (allDone \/ part = NoPart)
                /\ UNCHANGED <<cache, index, content, nLoaded, cachedAll>>
           ELSE IF \E i \in slots : i >= length
           THEN \* the column read raises IndexError
                /\ ret' = [NoRet EXCEPT !.op = "cache_all", !.arg = arg,
                                        !.status = "IndexError",
                                        !.again = allDone]
                /\ UNCHANGED <<cache, index, content, nLoaded, cachedAll,
                               allDone>>
           ELSE /\ ~st.full
                /\ cache' = st.cache
                /\ index' = st.index
                /\ content' = st.content
                /\ nLoaded' = st.nLoaded
                /\ cachedAll' = TRUE
                /\ allDone' = (allDone \/ part = NoPart)
                /\ ret' = [NoRet EXCEPT !.op = "cache_all", !.arg = arg,
                                        !.status = "ok", !.wrote = TRUE,
                                        !.again = allDone]
    /\ UNCHANGED <<kind, length, json, namecol, cacheOn, free_, name_idx,
                   names_loaded, free_name, objName, objFixed, stack, histVars,
                   treeRets, registered, keyFirst,
                   keyLast, iterVars,
                   loadedAt>>

\* ------------------------------------------------------ before register
\* the operations of a store that has no storage yet
BeforeOps == {"load", "loadname", "save", "len", "iter", "cache_all", "find"}

\* how an operation ends on a store without storage: "Unregistered" where
\* the property storage is read and raises RuntimeError (every len(self),
\* every read of name_idx), otherwise what the code reaches before that
BeforeStatus(op, obj, idx, i) ==
    LET is_str == idx # NoName
    IN  CASE op = "load" ->
                 IF kind \in DictKinds THEN "Unregistered"
                 ELSE IF i < 0 THEN "none" ELSE "Unregistered"
          [] op = "save" /\ kind = "object" ->
                 IF is_str THEN "ValueError" ELSE "Unregistered"
          [] op = "save" /\ kind = "named" ->
                 IF is_str /\ objFixed[obj] THEN "ValueError"
                 ELSE "Unregistered"
          [] op = "save" /\ kind = "unique" ->
                 IF UniqueReads(obj, idx) THEN "Unregistered"
                 ELSE IF is_str THEN "ValueError" ELSE "Unregistered"
          [] op = "save" /\ kind = "dict" ->
                 IF is_str THEN "Unregistered" ELSE "ValueError"
          [] OTHER -> "Unregistered"

\* one operation called before register()
BeforeRegister(op, obj, idx, i) ==
    /\ ~registered
    /\ op \in {"loadname", "find"} => kind # "object"
    /\ op = "cache_all" => kind \notin DictKinds
    /\ ret' = [NoRet EXCEPT !.op = op,
                            !.obj = IF op = "save" THEN obj ELSE NoObj,
                            !.arg = IF op \in {"save", "loadname", "find"}
                                    THEN idx ELSE NoName,
                            !.slot = IF op = "load" THEN i ELSE NoSlot,
                            !.status = BeforeStatus(op, obj, idx, i)]
    /\ objName' = IF op = "save" /\ kind = "named" /\ idx # NoName
                      /\ ~objFixed[obj]
                   THEN [objName EXCEPT ![obj] = idx] ELSE objName
    /\ UNCHANGED <<storeVars, content, objFixed, nLoaded, stack, histVars,
                   treeRets, extVars>>

\* ObjectStore.register
Register ==
    /\ ~registered
    /\ registered' = TRUE
    /\ ret' = NoRet
    /\ UNCHANGED <<storeVars, objVars, stack, histVars, treeRets, allDone,
                   keyFirst,
                   keyLast, iterVars,
                   loadedAt>>

\* ------------------------------------------------------- the application
\* obj.name = n on an object the application has not passed to save yet
SetName(obj, n) ==
    /\ stack = <<>>
    /\ kind # "object"
    /\ obj \in AppObjs
    /\ index[obj] = NoSlot
    /\ ~objFixed[obj]
    /\ objName[obj] # n
    /\ objName' = [objName EXCEPT ![obj] = n]
    /\ ret' = NoRet
    /\ UNCHANGED <<storeVars, content, objFixed, nLoaded, stack, histVars,
                   extVars>>
    /\ treeRets' = {}

\* obj.fix_name() on such an object
FixName(obj) ==
    /\ stack = <<>>
    /\ kind # "object"
    /\ obj \in AppObjs
    /\ index[obj] = NoSlot
    /\ ~objFixed[obj]
    /\ objFixed' = [objFixed EXCEPT ![obj] = TRUE]
    /\ ret' = NoRet
    /\ UNCHANGED <<storeVars, content, objName, nLoaded, stack, histVars,
                   extVars>>
    /\ treeRets' = {}

\* ------------------------------------------------------------------ Next
DoSave == \E obj \in AllObjs, idx \in Names \cup {NoName} : SaveCall(obj, idx)
DoSaveFail == \E partial \in BOOLEAN : SaveFail(partial)
DoLoad == \E i \in -1..MaxLen : Load(i)
DoLoadByName == \E n \in Names : LoadByName(n)
DoFindIndices == \E n \in Names : FindIndices(n)
DoSetCaching == \E on \in BOOLEAN : SetCaching(on)
DoSetName == \E obj \in AllObjs, n \in Names : SetName(obj, n)
DoFixName == \E obj \in AllObjs : FixName(obj)

Next ==
    \/ DoSave
    \/ SaveEnd
    \/ DoSaveFail
    \/ DoLoad
    \/ DoLoadByName
    \/ DoFindIndices
    \/ ClearCache
    \/ DoSetCaching
    \/ CacheAll
    \/ DoSetName
    \/ DoFixName

Spec == Init /\ [][Next]_vars

\* -------------------------------------------------------- specifications
\* the store is an ObjectStore
InitObject == Init /\ kind = "object"
NextObject ==
    \/ DoSave
    \/ SaveEnd
    \/ DoSaveFail
    \/ DoLoad
    \/ ClearCache
    \/ DoSetCaching
    \/ CacheAll
SpecObject == InitObject /\ [][NextObject]_vars

\* the store is a VariableStore: save, load and the cache of ObjectStore
\* with the cache_all of VariableStore
DoVarCacheAll == \E part \in {NoPart} \cup SUBSET Slots : VarCacheAll(part)
NextVariable ==
    \/ DoSave
    \/ SaveEnd
    \/ DoSaveFail
    \/ DoLoad
    \/ ClearCache
    \/ DoSetCaching
    \/ DoVarCacheAll
SpecVariable == InitObject /\ [][NextVariable]_vars

\* the store is a NamedObjectStore
InitNamed == Init /\ kind = "named"
NextNamed ==
    \/ DoSave
    \/ SaveEnd
    \/ DoSaveFail
    \/ DoSetName
    \/ DoLoadByName
    \/ DoFindIndices
SpecNamed == InitNamed /\ [][NextNamed]_vars

\* the store is a UniqueNamedObjectStore
InitUnique == Init /\ kind = "unique"
NextUnique ==
    \/ DoSave
    \/ SaveEnd
    \/ DoSaveFail
    \/ DoSetName
    \/ DoFixName
    \/ DoLoad
    \/ DoLoadByName
    \/ DoFindIndices
SpecUnique == InitUnique /\ [][NextUnique]_vars

\* the store is a DictStore or an ImmutableDictStore
InitDict == InitOf(DictKinds, TRUE)
DoDictSave ==
    \E obj \in AppObjs, key \in Names \cup {NoName},
       outcome \in {"ok", "fail", "partial"} : DictSave(obj, key, outcome)
DoDictLoad == \E key \in Names : DictLoad(key)
DoDictLoadAt == \E i \in -1..MaxLen : DictLoadAt(i)
NextDict ==
    \/ DoDictSave
    \/ DoDictLoad
    \/ DoDictLoadAt
SpecDict == InitDict /\ [][NextDict]_vars

\* the three stores under save, load and the application's naming
NextSave ==
    \/ DoSave
    \/ SaveEnd
    \/ DoSaveFail
    \/ DoSetName
    \/ DoFixName
    \/ DoLoad
SpecSave == Init /\ [][NextSave]_vars

\* a store from its construction: the operations before register(),
\* register(), and the operations of the registered store
InitBefore == InitOf(Kinds \cup DictKinds, FALSE)
DoBefore ==
    \E op \in BeforeOps, obj \in AppObjs, idx \in Names \cup {NoName},
       i \in -1..MaxLen :
        /\ op # "save" => obj = 1
        /\ op \notin {"save", "loadname", "find"} => idx = NoName
        /\ op \in {"loadname", "find"} => idx # NoName
        /\ op # "load" => i = 0
        /\ BeforeRegister(op, obj, idx, i)
NextRegister ==
    \/ DoBefore
    \/ Register
    \/ ~registered /\ kind \in Kinds /\ DoSetName
    \/ ~registered /\ kind \in Kinds /\ DoFixName
    \/ registered /\ kind \in Kinds /\ DoSave
    \/ registered /\ kind \in Kinds /\ SaveEnd
    \/ registered /\ kind \in Kinds /\ DoSaveFail
    \/ registered /\ kind \in DictKinds /\ NextDict
SpecRegister == InitBefore /\ [][NextRegister]_vars

\* the five stores under store[item] and saves of objects that refer to no
\* other object
DoGetItemAt == \E i \in -1..MaxLen : GetItemAt(i)
DoGetItemByName == \E n \in Names : GetItemByName(n)
InitGetItem == InitOf(Kinds \cup DictKinds, TRUE)
NextGetItem ==
    \/ kind \in Kinds /\ stack = <<>> /\ DoSave
    \/ kind \in Kinds /\ SaveEnd
    \/ kind \in Kinds /\ DoSaveFail
    \/ DoDictSave
    \/ DoGetItemAt
    \/ DoGetItemByName
SpecGetItem == InitGetItem /\ [][NextGetItem]_vars

\* an ObjectStore under iteration over the whole store, the cache switch and
\* saves of application objects that refer to no other object
DoSaveOne == \E obj \in AppObjs : stack = <<>> /\ SaveCall(obj, NoName)
NextIter ==
    \/ DoSaveOne
    \/ SaveEnd
    \/ DoSaveFail
    \/ DoSetCaching
    \/ IterStart
    \/ IterNext
SpecIter == InitObject /\ [][NextIter]_vars

\* the same store under iteration over a slice
DoIterStartRange ==
    \E start \in 0..1, stop \in 0..(MaxLen + 1), step \in -1..2 :
        IterStartRange(start, stop, step)
NextIterRange ==
    \/ DoSaveOne
    \/ SaveEnd
    \/ DoSaveFail
    \/ DoSetCaching
    \/ DoIterStartRange
    \/ IterNext
SpecIterRange == InitObject /\ [][NextIterRange]_vars

\* an ObjectStore under save and free()
NextFree ==
    \/ DoSave
    \/ SaveEnd
    \/ DoSaveFail
    \/ FreeCall
SpecFree == InitObject /\ [][NextFree]_vars

\* an ObjectStore under saves of objects and of proxies
DoSaveProxy == \E i \in Slots : SaveProxy(i)
NextProxy ==
    \/ DoSave
    \/ SaveEnd
    \/ DoSaveFail
    \/ DoSaveProxy
SpecProxy == InitObject /\ [][NextProxy]_vars

\* ================================================================ claims

\* the slots of the name column that hold name n
SlotsNamed(n) == {i \in Slots : i < length /\ namecol[i] = n}

\* C1: the saves of one call tree return pairwise distinct slots to distinct
\* objects that had not been saved before
C1_NestedSlotsDistinct ==
    \A p, q \in treeRets : p[1] # q[1] => p[2] # q[2]

\* C2: after a save whose backend write failed, the object is not bound in
\* the identity map and is not in the cache; an object for which save
\* returns a slot has had its record written
C2_FailedSaveLeavesUnbound ==
    /\ (ret.op = "save" /\ ret.status = "WriteFailed") =>
          /\ index[ret.obj] = NoSlot
          /\ \A i \in Slots : cache[i] # ret.obj
    /\ (ret.op = "save" /\ ret.status = "ok" /\ ret.obj \in AppObjs
           /\ ret.obj \notin FrameObjs) =>
          writes[ret.obj] >= 1

\* C3: save never binds two distinct objects to the same slot
C3_OneObjectPerSlot ==
    \A a, b \in AppObjs :
        (index[a] # NoSlot /\ index[a] = index[b]) => a = b

\* C4: in the unique store the name index maps no non-empty name to more
\* than one slot
C4_NameHasOneSlot ==
    kind = "unique" =>
        \A n \in Names \ {""} : Cardinality(name_idx[n]) <= 1

\* C5: while save(obj, name=n) is in flight in the unique store, the name n
\* is locked
C5_NameLockedInFlight ==
    kind = "unique" =>
        \A k \in 1..Len(stack) :
            stack[k].arg \notin {NoName, ""} => IsNameLocked(stack[k].arg)

\* C6: once save(o) has returned a slot, a later save(o) returns that slot,
\* allocates nothing and writes nothing, so that exactly one record has been
\* written for o
C6_ResaveIsNoOp ==
    /\ (ret.op = "save" /\ ret.status = "ok" /\ ret.again) =>
          /\ ret.slot = firstSlot[ret.obj]
          /\ ~ret.alloc
          /\ ~ret.wrote
    /\ stack = <<>> => \A o \in Saved : writes[o] = 1

\* C7: after i = save(o), load(i) from a cold cache returns an object whose
\* content is that of o
C7_LoadReturnsSaved ==
    \A o \in Saved :
        (stack = <<>> /\ ret.op = "load" /\ ret.slot = firstSlot[o] /\ ~ret.hit)
            => ret.status = "ok" /\ content[ret.obj] = content[o]

\* C8: load(name) for a name stored at two or more slots returns the object
\* at the largest of these slots
C8_LoadByNameIsLatest ==
    (ret.op = "loadname" /\ Cardinality(SlotsNamed(ret.arg)) >= 2) =>
        /\ ret.status = "ok"
        /\ \A i \in SlotsNamed(ret.arg) : i <= ret.slot
        /\ ret.slot \in SlotsNamed(ret.arg)

\* C9: two saves of distinct objects under one name return distinct slots,
\* and find_indices(n) is the ascending list of the slots saved under n
C9_FindIndicesAreTheSavedSlots ==
    /\ \A a, b \in Saved :
          (a # b /\ objName[a] = objName[b]) => firstSlot[a] # firstSlot[b]
    /\ (ret.op = "find" /\ ret.status = "ok") =>
          ret.list = Sorted(SlotsNamed(ret.arg))

\* C10: the slot reservation set holds exactly the slots of the saves in
\* flight, one slot for each, and so is empty when no save is executing
C10_ReservedAreInFlight ==
    /\ free_ = FrameSlots
    /\ Cardinality(free_) = Len(stack)

\* a nested save has returned and released its slot while the save that
\* called it is in flight and holds its own
C10_Witness_InnerReleased ==
    /\ Len(stack) = 1
    /\ ret.op = "save" /\ ret.status = "ok" /\ ret.alloc
    /\ free_ = {stack[1].n_idx}
    /\ ret.slot # stack[1].n_idx

\* C11: after DictStore.save or ImmutableDictStore.save has returned or its
\* write has failed, the slot it reserved is not in the slot reservation set
C11_DictSlotReleased ==
    (ret.op = "dictsave" /\ ret.alloc) => ret.slot \notin free_

\* C12: cache_all called with a list of slots leaves the fully-cached flag
\* of a VariableStore as it was
C12_PartialLeavesFlag ==
    [][(ret'.op = "cache_all" /\ ret'.arg = "part") => cachedAll' = cachedAll]_vars

\* C13: when cache_all() has returned on a store with an unbounded cache,
\* every slot below the length of the store is in the cache
C13_CacheAllFillsCache ==
    (ret.op = "cache_all" /\ ret.status = "ok" /\ cacheOn) =>
        \A i \in Slots : i < length => cache[i] # NoObj

\* C14: a cache_all() that follows a cache_all() with no clear_cache() in
\* between fetches nothing and leaves the cache and the identity map as they
\* were; clear_cache() empties the cache, and the cache_all() that follows it
\* fetches again
C14_CacheAllIdempotent ==
    [][/\ (ret'.op = "cache_all" /\ allDone) =>
             (~ret'.wrote /\ cache' = cache /\ index' = index)
       /\ ret'.op = "clear_cache" => \A i \in Slots : cache'[i] = NoObj
       /\ (ret'.op = "cache_all" /\ ~allDone) => ret'.wrote]_vars

\* a second cache_all() has returned on a store whose cache holds a record
C14_Witness_SecondCall ==
    /\ ret.op = "cache_all" /\ ret.again /\ ~ret.wrote
    /\ cacheOn
    /\ \E i \in Slots : i < length /\ cache[i] # NoObj

\* C15: an operation called before register() fails with the Unregistered
\* error
C15_UnregisteredFails ==
    (~registered /\ ret.op \in BeforeOps) => ret.status = "Unregistered"

\* C16: save of an object that is not of the content class of an ObjectStore
\* fails with TypeMismatch and leaves the length, the identity map, the cache
\* and the slot reservation set as they were; such an object is never bound
\* and never in flight
C16_TypeMismatchChangesNothing ==
    [][/\ (ret'.op = "save" /\ ret'.obj \in ForeignObjs) =>
             /\ ret'.status = "TypeMismatch"
             /\ length' = length /\ index' = index
             /\ cache' = cache /\ free_' = free_
       /\ \A x \in ForeignObjs : index'[x] = NoSlot /\ x \notin FrameObjs']_vars

\* the save of a foreign object has failed on a store that holds a record
\* saved before
C16_Witness_Rejected ==
    /\ ret.op = "save" /\ ret.obj \in ForeignObjs
    /\ ret.status = "TypeMismatch"
    /\ \E o \in AppObjs : writes[o] >= 1 /\ index[o] # NoSlot

\* C17: in the unique store the save of an object that is not saved yet,
\* under a name that is in the name index (given as argument or carried by
\* the object, fixed or not), fails with NameConflict and adds no slot; no
\* such save goes on to the write
C17_TakenNameConflicts ==
    [][kind = "unique" =>
         /\ (/\ ret'.op = "save" /\ stack = <<>>
             /\ ret'.obj \in AppObjs /\ index[ret'.obj] = NoSlot
             /\ InNameIdx(IF ret'.arg # NoName THEN ret'.arg
                          ELSE objName[ret'.obj])) =>
                (ret'.status = "NameConflict" /\ length' = length)
         /\ Len(stack') > Len(stack) =>
                ~InNameIdx(stack'[Len(stack')].name)]_vars

\* the call save(obj, m) on an object whose name is fixed and is not m
RenamesFixed(obj, m) ==
    m # NoName /\ obj \in AllObjs /\ objFixed[obj] /\ objName[obj] # m

\* C18: in the unique store save(obj, name=m) on an object whose name is
\* fixed as n # m fails with NameConflict and leaves the name of the object,
\* the name index, the length and both reservation sets as they were; no
\* such save goes on to the write
C18_FixedNameCannotChange ==
    [][kind = "unique" =>
         /\ (ret'.op = "save" /\ RenamesFixed(ret'.obj, ret'.arg)) =>
                /\ ret'.status = "NameConflict"
                /\ objName' = objName
                /\ NameIdxRead' = NameIdxRead
                /\ length' = length
                /\ free_' = free_ /\ free_name' = free_name
         /\ Len(stack') > Len(stack) =>
                ~RenamesFixed(stack'[Len(stack')].obj,
                              stack'[Len(stack')].arg)]_vars

\* save under another name has failed on a saved object, whose name is fixed
C18_Witness_SavedRenamed ==
    /\ kind = "unique"
    /\ ret.op = "save" /\ ret.status = "NameConflict"
    /\ RenamesFixed(ret.obj, ret.arg)
    /\ ret.obj \in AppObjs /\ writes[ret.obj] >= 1

\* the call save(obj, m) on a saved object, m being its fixed name or left out
ResavesOwnName(obj, m) ==
    /\ obj \in AppObjs /\ firstSlot[obj] # NoSlot
    /\ objFixed[obj]
    /\ m = NoName \/ m = objName[obj]

\* C19: in the unique store the save of a saved object under its own fixed
\* name, passed or left out, returns the slot of the object, allocates no
\* slot, writes nothing, and leaves the name index and the name reservation
\* set as they were; no such save goes on to the write
C19_ResaveOwnNameIsNoOp ==
    [][kind = "unique" =>
         /\ (ret'.op = "save" /\ ResavesOwnName(ret'.obj, ret'.arg)) =>
                /\ ret'.status = "ok" /\ ret'.slot = firstSlot[ret'.obj]
                /\ ~ret'.alloc /\ ~ret'.wrote
                /\ length' = length /\ json' = json /\ namecol' = namecol
                /\ index' = index /\ free_' = free_
                /\ name_idx' = name_idx /\ free_name' = free_name
         /\ Len(stack') > Len(stack) =>
                ~ResavesOwnName(stack'[Len(stack')].obj,
                                stack'[Len(stack')].arg)]_vars

\* a saved object has been saved again with its own name passed
C19_Witness_ResavedByName ==
    /\ kind = "unique"
    /\ ret.op = "save" /\ ret.status = "ok" /\ ret.again /\ ~ret.wrote
    /\ ret.arg \notin {NoName, ""} /\ ret.arg = objName[ret.obj]
    /\ objFixed[ret.obj] /\ ret.slot = index[ret.obj]

\* C20: ImmutableDictStore.save under a key that is in the name index fails
\* with KeyConflict, allocates no slot and writes nothing; every key has at
\* most one slot in the name index, every key a record was written under has
\* one, and load(key) returns the content of the first record written under
\* the key
C20_FirstWriteWins ==
    [][kind = "immutable" =>
         /\ (ret'.op = "dictsave" /\ InNameIdx(ret'.arg)) =>
                /\ ret'.status = "KeyConflict"
                /\ length' = length /\ json' = json /\ namecol' = namecol
                /\ free_' = free_
         /\ \A k \in Names : Cardinality(NameIdxRead'[k]) <= 1
         /\ (ret'.op = "dictload" /\ ret'.arg # NoName
                /\ ret'.status = "ok") =>
                ret'.val = keyFirst'[ret'.arg]
         /\ \A k \in Names : keyFirst'[k] # Fill => InNameIdx(k)']_vars

\* C21: DictStore.save under a string key appends a new slot, the slots
\* recorded under any key stay recorded and the new slot is recorded under
\* the key; load(key) returns the content of the last record written under
\* the key
C21_DictKeepsHistory ==
    [][kind = "dict" =>
         /\ (ret'.op = "dictsave" /\ ret'.arg # NoName) =>
                ret'.status \in {"ok", "WriteFailed"}
         /\ (ret'.op = "dictsave" /\ ret'.status = "ok") =>
                /\ ret'.slot >= length
                /\ \A k \in Names : NameIdxRead[k] \subseteq NameIdxRead'[k]
                /\ ret'.slot \in NameIdxRead'[ret'.arg]
         /\ (ret'.op = "dictload" /\ ret'.arg # NoName
                /\ keyLast'[ret'.arg] # Fill) =>
                (ret'.status = "ok" /\ ret'.val = keyLast'[ret'.arg])]_vars

\* C22: a save in a dictionary store with no key or with the empty string as
\* key is rejected and stores nothing
C22_KeyMustBeNonEmpty ==
    [][(kind \in DictKinds /\ ret'.op = "dictsave" /\ ret'.arg \in {NoName, ""}) =>
         (ret'.status = "ValueError" /\ json' = json /\ namecol' = namecol
            /\ length' = length)]_vars

\* C23: on every store, store[k] with a slot or a key that does not exist
\* returns None and does not raise
C23_GetItemMissingIsNone ==
    (/\ ret.op = "getitem"
     /\ \/ ret.arg = NoName /\ (ret.slot < 0 \/ ret.slot >= length)
        \/ ret.arg # NoName /\ SlotsNamed(ret.arg) = {}) =>
        (ret.status = "none" /\ ret.obj = NoObj)

\* C24: ObjectStore.load(i) with i negative or not below the length returns
\* None, does not raise, and changes neither the length, the identity map,
\* the cache nor the stored records
C24_LoadOutOfRangeIsNone ==
    [][(kind = "object" /\ ret'.op = "load"
          /\ (ret'.slot < 0 \/ ret'.slot >= length)) =>
         (ret'.status = "none" /\ ret'.obj = NoObj /\ length' = length
            /\ index' = index /\ cache' = cache /\ json' = json)]_vars

\* a load past the end of a store that holds records has returned None
C24_Witness_PastEnd ==
    /\ kind = "object" /\ ret.op = "load" /\ ret.slot >= length /\ length > 0
    /\ ret.status = "none"

\* C25: NamedObjectStore.load(name) with a name that is not in the name
\* index fails with NotFound and changes neither the name index, the
\* identity map, the cache nor the length
C25_UnknownNameNotFound ==
    [][(kind \in {"named", "unique"} /\ ret'.op = "loadname"
          /\ NameIdxRead[ret'.arg] = {}) =>
         (ret'.status = "NotFound" /\ ret'.obj = NoObj
            /\ NameIdxRead' = NameIdxRead /\ index' = index
            /\ cache' = cache /\ length' = length)]_vars

\* a load by a name the store does not hold, in a store that holds records
\* under other names, has failed
C25_Witness_OtherNamesHeld ==
    /\ kind = "named" /\ ret.op = "loadname" /\ ret.status = "NotFound"
    /\ \E m \in Names \ {ret.arg} : NameIdxRead[m] # {}

\* the slots 0, 1, ..., n - 1 in this order
Ascending(n) == [k \in 1..n |-> k - 1]

\* C26: a full iteration over a store of length L yields load(0), load(1),
\* ..., load(L - 1) in ascending slot order and then stops; every new
\* iteration starts again at slot 0
C26_FullIterationInOrder ==
    [][/\ (itKind' = "full" /\ ret'.op = "iter") =>
             (itIdx' = 0 /\ itEnd' = length /\ yielded' = <<>>)
       /\ itKind' = "full" =>
             /\ Len(yielded') <= itEnd'
             /\ yielded' = Ascending(Len(yielded'))
             /\ itDone' => yielded' = Ascending(itEnd')
       /\ (itKind = "full" /\ ret'.op = "next"
             /\ ret'.status \in {"ok", "none"}) =>
             (ret'.slot = Len(yielded) /\ ret'.slot < itEnd)]_vars

\* a full iteration over a store of two records has yielded both and stopped
C26_Witness_TwoYielded ==
    /\ itKind = "full" /\ itDone /\ yielded = <<0, 1>> /\ length = 2
    /\ ret.status = "StopIteration"

\* C27: an iteration over a slice takes no more elements than the store has
\* slots, and takes them at existing slots, in ascending slot order
C27_SliceIterationBounded ==
    itKind = "range" =>
        /\ Len(yielded) <= length
        /\ \A k \in 1..Len(yielded) : yielded[k] \in 0..(length - 1)
        /\ \A k \in 1..(Len(yielded) - 1) : yielded[k] < yielded[k + 1]

\* C28: when the write fails during a save in a NamedObjectStore or a
\* UniqueNamedObjectStore, the name column is not written and the name index
\* gains no entry, so that find_indices and load by name answer as before
C28_FailedSaveLeavesNames ==
    [][(kind \in {"named", "unique"} /\ ret'.op = "save"
          /\ ret'.status = "WriteFailed") =>
         (namecol' = namecol /\ NameIdxRead' = NameIdxRead)]_vars

\* the write of a named object has failed and left a partial record, and no
\* slot carries the object's name
C28_Witness_PartialUnnamed ==
    /\ kind = "named" /\ ret.op = "save" /\ ret.status = "WriteFailed"
    /\ objName[ret.obj] # "" /\ SlotsNamed(objName[ret.obj]) = {}
    /\ \E i \in Slots : i < length /\ json[i] = Partial

\* C29: find_indices(name) returns the empty list, and does not raise, when
\* no object with that name exists in the store
C29_FindUnknownIsEmpty ==
    (kind \in {"named", "unique"} /\ ret.op = "find"
       /\ SlotsNamed(ret.arg) = {}) =>
        (ret.status = "ok" /\ ret.list = <<>>)

\* the call save(obj, m) on a loaded object under a name that is not its own
RenamesLoaded(obj, m) ==
    kind = "unique" /\ obj \in LoadedObjs /\ m # NoName /\ m # objName[obj]

\* C30: an object returned by NamedObjectStore.load, by slot or by name,
\* carries the name of the name column at its slot and has its name fixed;
\* a later save of it in the unique store under another name fails with
\* NameConflict and never goes on to the write
C30_LoadedNameIsFixed ==
    [][(kind \in {"named", "unique"}) =>
         /\ (ret'.op \in {"load", "loadname"} /\ ret'.status = "ok") =>
                /\ objName'[ret'.obj] = namecol[ret'.slot]
                /\ objFixed'[ret'.obj]
         /\ (ret'.op = "save" /\ RenamesLoaded(ret'.obj, ret'.arg)) =>
                (ret'.status = "NameConflict" /\ objName' = objName)
         /\ Len(stack') > Len(stack) =>
                ~RenamesLoaded(stack'[Len(stack')].obj,
                               stack'[Len(stack')].arg)]_vars

\* a loaded object has been refused a save under a name that is not the one
\* of the name column at its slot
C30_Witness_LoadedRefused ==
    /\ kind = "unique" /\ ret.op = "save" /\ ret.status = "NameConflict"
    /\ ret.obj \in LoadedObjs /\ index[ret.obj] # NoSlot
    /\ ret.arg # NoName /\ ret.arg # namecol[index[ret.obj]]

\* C31: free() returns the smallest integer that is at least the length of
\* the store and is not in the slot reservation set, and changes neither the
\* reservation set nor anything else
C31_FreeIsSmallestUnreserved ==
    [][ret'.op = "free" =>
         /\ ret'.status = "ok"
         /\ ret'.slot >= length /\ ret'.slot \notin free_
         /\ \A j \in length..(ret'.slot - 1) : j \in free_
         /\ UNCHANGED <<storeVars, objVars, stack>>]_vars

\* free() has skipped two reserved slots while two saves were in flight
C31_Witness_SkippedReserved ==
    /\ ret.op = "free" /\ Len(stack) = 2 /\ ret.slot >= length + 2

\* C32: ObjectStore.load(i) for a slot in the cache returns the cached
\* instance and fetches nothing; on a miss with 0 <= i < length it fetches
\* the record once, binds the object it builds to i in the identity map,
\* puts it in the cache and returns it
C32_LoadHitOrFetch ==
    [][(kind = "object" /\ ret'.op = "load" /\ ret'.slot >= 0
          /\ ret'.slot < length) =>
         IF cacheOn /\ cache[ret'.slot] # NoObj
         THEN /\ ret'.status = "ok" /\ ret'.hit
              /\ ret'.obj = cache[ret'.slot]
              /\ nLoaded' = nLoaded /\ content' = content
         ELSE /\ ret'.status = "ok" /\ ~ret'.hit
              /\ nLoaded' = nLoaded + 1
              /\ ret'.obj = NObj + nLoaded'
              /\ content'[ret'.obj] = json[ret'.slot]
              /\ index'[ret'.obj] = ret'.slot
              /\ cacheOn => cache'[ret'.slot] = ret'.obj]_vars

\* C33: ObjectStore.save(p) for a lazy proxy p returns the slot the proxy
\* wraps and leaves the store as it was: no slot is allocated or reserved,
\* nothing is written, the identity map and the cache are not changed
C33_SaveProxyReturnsSlot ==
    [][ret'.op = "save_proxy" =>
         /\ ret'.status = "ok" /\ ret'.slot = ret'.val
         /\ ~ret'.alloc /\ ~ret'.wrote
         /\ UNCHANGED <<storeVars, objVars, stack, histVars>>]_vars

\* a proxy of a slot the store does not hold yet has been saved while a save
\* of an object was in flight
C33_Witness_ProxyInFlight ==
    /\ ret.op = "save_proxy" /\ stack # <<>> /\ ret.slot >= length
    /\ ret.slot \notin free_

\* C34: when UniqueNamedObjectStore.save has returned or raised, the name
\* reservation set holds no name that the call added: every reserved name
\* belongs to a save in flight, and the set is empty when none is
C34_NameReservationsReleased ==
    kind = "unique" =>
        /\ free_name \subseteq FrameNames
        /\ stack = <<>> => free_name = {}

\* a save nested in a save under a reserved name has returned, and the name
\* of the outer save is still reserved
C34_Witness_InnerReturned ==
    /\ kind = "unique" /\ Len(stack) = 1 /\ free_name # {}
    /\ ret.op = "save" /\ ret.status = "ok" /\ ret.wrote
    /\ objName[ret.obj] \notin free_name \cup {""}

\* C35: whenever the name index of a named store is read, it maps every
\* non-empty name to exactly the slots whose name column holds it, whether
\* it was built by the first read or updated by saves and loads, and no
\* slot recorded under a name is ever removed
C35_NameIndexMatchesColumn ==
    [][(kind \in {"named", "unique"}) =>
         /\ stack' = <<>> =>
                \A n \in Names \ {""} : NameIdxRead'[n] = SlotsNamed(n)'
         /\ \A n \in Names : NameIdxRead[n] \subseteq NameIdxRead'[n]]_vars

\* the slot of the save of obj that is in flight
FrameSlotOf(obj) ==
    stack[CHOOSE k \in 1..Len(stack) : stack[k].obj = obj].n_idx

\* C36: a save(o) that serialization calls while save(o) of the same
\* instance is in flight in an ObjectStore returns the slot the outer call
\* chose, allocates no second slot and writes nothing, no second save of o
\* is started, and the outer save returns that same slot
C36_SelfReferenceReturnsOuterSlot ==
    [][kind = "object" =>
         /\ (ret'.op = "save" /\ ret'.obj \in FrameObjs
               /\ Len(stack') = Len(stack)) =>
                /\ ret'.status = "ok" /\ ret'.slot = FrameSlotOf(ret'.obj)
                /\ ~ret'.alloc /\ ~ret'.wrote
                /\ UNCHANGED <<length, json, free_, index, cache>>
         /\ Len(stack') > Len(stack) =>
                stack'[Len(stack')].obj \notin FrameObjs
         /\ (ret'.op = "save" /\ ret'.status = "ok"
               /\ Len(stack') < Len(stack)) =>
                /\ ret'.obj = stack[Len(stack)].obj
                /\ ret'.slot = stack[Len(stack)].n_idx
                /\ index'[ret'.obj] = ret'.slot]_vars

\* a save of an object nested in the save of the same object has returned the
\* slot of the outer call, which is still in flight
C36_Witness_NestedReturned ==
    /\ kind = "object" /\ stack # <<>> /\ ret.op = "save" /\ ret.status = "ok"
    /\ ret.obj \in FrameObjs /\ ret.slot = FrameSlotOf(ret.obj)
    /\ ret.slot \in free_ /\ ret.slot >= length

\* a named store with the cache switched on and off, loads by index,
\* cache_all and saves that are not nested
NextResave ==
    \/ (stack = <<>> /\ DoSave)
    \/ SaveEnd
    \/ DoLoad
    \/ CacheAll
    \/ DoSetCaching
SpecResave == InitNamed /\ [][NextResave]_vars

\* C37: a save, with no name passed, of an instance that load(i) of an
\* ObjectStore or NamedObjectStore returned (from the cache, reconstructed
\* or built by cache_all) returns i, allocates no slot and leaves the length,
\* the serialized column, the name column and the reservations as they
\* were, and no such save goes on to the write
C37_ResaveReturnsLoadedSlot ==
    [][(kind \in {"object", "named"}) =>
         /\ (ret'.op = "save" /\ ret'.arg = NoName
               /\ loadedAt[ret'.obj] # NoSlot) =>
                /\ ret'.status = "ok" /\ ret'.slot = loadedAt[ret'.obj]
                /\ ~ret'.alloc /\ ~ret'.wrote
                /\ UNCHANGED <<length, json, namecol, free_>>
         /\ Len(stack') > Len(stack) =>
                loadedAt[stack'[Len(stack')].obj] = NoSlot]_vars

\* the call save(obj, idx) stores obj under the empty name
SavesUnnamed(obj, idx) ==
    obj \in AllObjs /\ idx \in {NoName, ""} /\ objName[obj] = ""

\* C38: in the unique store the empty name is never locked (it is neither
\* reserved nor in the name index), no save of an object under the empty
\* name fails with NameConflict, and the objects with the empty name for
\* which save has returned a slot have pairwise distinct slots
C38_EmptyNameNeverLocked ==
    [][kind = "unique" =>
         /\ "" \notin free_name' /\ NameIdxRead'[""] = {}
         /\ ~IsNameLocked("")'
         /\ (ret'.op = "save" /\ SavesUnnamed(ret'.obj, ret'.arg)) =>
                ret'.status # "NameConflict"
         /\ \A a, b \in AppObjs :
                (/\ objName'[a] = "" /\ objName'[b] = ""
                 /\ firstSlot'[a] # NoSlot
                 /\ firstSlot'[a] = firstSlot'[b]) => a = b]_vars

====
